---- MODULE Spec2Model ----
(***************************************************************************)
(* mon_bot (src/main.py): per-user relationship state, bounded memory and  *)
(* conversation stores, and the lock-elected scheduler, as a state machine.*)
(* Every SQL statement that commits is one atomic step; the threads of the *)
(* web workers and the scheduler thread interleave between statements.     *)
(***************************************************************************)
EXTENDS Integers, Sequences, FiniteSets, TLC

VARIABLES
    users,                  \* table users: user_id -> row (DOMAIN = stored ids)
    attachment,             \* table attachment: user_id -> style
    mood_history,           \* table mood_history: rows in id order
    memories,               \* table memories: rows in id order
    memories_seq,           \* AUTOINCREMENT high-water mark of memories.id
    conversation_history,   \* table conversation_history: rows in id order
    conversation_seq,       \* AUTOINCREMENT high-water mark of conversation_history.id
    turn_log,               \* history: the user of every turn ever inserted, by id
    th,                     \* request / reply threads: program counter and locals
    calls,                  \* number of operations started so far
    clock,                  \* wall clock: [day, h, m]
    pc,                     \* scheduler(): position of each worker process
    lock,                   \* holder of the file lock SCHEDULER_LOCK_PATH
    energy_recovered_today, \* scheduler() local of each process
    recoveries,             \* history: recovery passes applied today
    pushes,                 \* history: proactive messages delivered today, per user and moment
    tickLog,                \* history: what the latest tick did
    completion              \* the completion provider: "up", or "down" (_call_gpt raises)

vars == <<users, attachment, mood_history, memories, memories_seq,
          conversation_history, conversation_seq, turn_log, th, calls, clock, pc, lock,
          energy_recovered_today, recoveries, pushes, tickLog, completion>>

storeVars == <<users, attachment, mood_history, memories, memories_seq,
               conversation_history, conversation_seq, turn_log>>
schedVars == <<pc, lock, energy_recovered_today, recoveries, pushes, tickLog>>

----------------------------------------------------------------------------
(* Bounds of the model *)
NThreads == 2
NProcs   == 2
MaxDay   == 2

Threads == 1..NThreads
Procs   == 1..NProcs
Days    == 1..MaxDay
UserIds == {"u1", "u2"}

(* Program constants *)
MAX_HISTORY               == 10
MEMORY_LIMIT              == 8
MEMORY_LOW_IMPORTANCE_CAP == 50

NoDay   == 0              \* the '' default of last_morning / last_night / last_random
NoTime  == <<0, 0, 0>>    \* the '' default of last_active
NoProc  == 0              \* the lock file is held by nobody

Min(a, b) == IF a < b THEN a ELSE b
Max(a, b) == IF a > b THEN a ELSE b

----------------------------------------------------------------------------
(* Inbound texts: the keywords a text contains as substrings, and len(text) *)
Text(kws, len) == [kws |-> kws, len |-> len]

\* worried > sad > annoyed > excited > happy (dict order of _MOOD_TRIGGERS)
_MOOD_TRIGGERS == <<
    [mood |-> "worried", keywords |-> {"puai", "mai_sabai", "pen_arai", "antarai"}],
    [mood |-> "sad",     keywords |-> {"nueai", "sao", "ronghai", "jep", "siajai"}],
    [mood |-> "annoyed", keywords |-> {"phuchai", "faen_kao", "phuean_phuchai", "mai_care", "chang_man"}],
    [mood |-> "excited", keywords |-> {"yay", "sanuk", "tuenten", "pai", "joe"}],
    [mood |-> "happy",   keywords |-> {"khopkhun", "rak", "kidthueng", "dijai", "chop", "suk"}] >>

_AFFECTION_DELTA == [happy |-> 6, sad |-> 5, annoyed |-> 2, worried |-> 4, excited |-> 3]

_HIGH_IMPORTANCE_KW == {"rak", "ronghai", "kidthueng_mak", "luem_mai_long",
                        "samkhan", "khrang_raek", "khothot"}

\* a loop without the break: the last category with a keyword in the text wins
LastTrigger(text, i) ==
    LET S == {k \in i..Len(_MOOD_TRIGGERS) : _MOOD_TRIGGERS[k].keywords \cap text.kws # {}}
    IN  IF S = {} THEN 0 ELSE CHOOSE k \in S : \A m \in S : m <= k

\* the for ... break loop of adjust_emotion: index of the first category with a
\* keyword in the text, 0 when none matches
RECURSIVE FirstTrigger(_, _)
FirstTrigger(text, i) ==
    IF i > Len(_MOOD_TRIGGERS) THEN 0
    ELSE IF _MOOD_TRIGGERS[i].keywords \cap text.kws # {} THEN i
    ELSE FirstTrigger(text, i + 1)

Clamp(lo, hi, x) == Max(lo, Min(hi, x))

\* a clamp that forgets the floor
ClampEnergyNoFloor(x) == Min(100, x)

ClampEnergy(x)    == Clamp(20, 100, x)
ClampSocial(x)    == Clamp(20, 100, x)
ClampAffection(x) == Clamp(0, 100, x)

\* lines 201-226 of adjust_emotion: the next mood and numbers from the row read
ComputeEmotion(user, style, text) ==
    LET i     == FirstTrigger(text, 1)
        mood  == IF i = 0 THEN user.mood ELSE _MOOD_TRIGGERS[i].mood
        aff0  == IF i = 0 THEN user.affection
                 ELSE user.affection + _AFFECTION_DELTA[_MOOD_TRIGGERS[i].mood]
        aff1  == IF style = "anxious" /\ mood = "annoyed" THEN aff0 + 3 ELSE aff0
        soc0  == user.social_battery
        soc1  == IF style = "avoidant" /\ text.len > 80 THEN soc0 - 8 ELSE soc0
        soc2  == IF style = "secure" THEN Min(soc1 + 2, 100) ELSE soc1
        soc3  == IF text.len < 5 THEN soc2 - 4 ELSE soc2
    IN  [mood           |-> mood,
         energy         |-> ClampEnergy(user.energy - 1),
         affection      |-> ClampAffection(aff1),
         social_battery |-> ClampSocial(soc3)]

----------------------------------------------------------------------------
(* State store *)
DefaultUser == [mood |-> "calm", energy |-> 75, affection |-> 60, social_battery |-> 70,
                last_morning |-> NoDay, last_night |-> NoDay, last_random |-> NoDay,
                last_active |-> NoTime]

_ALLOWED_USER_FIELDS == {"mood", "energy", "affection", "social_battery",
                         "last_morning", "last_night", "last_random", "last_active"}

Styles == {"secure", "anxious", "avoidant"}

\* UPDATE users SET <fields> WHERE user_id=?  (no row: nothing changes)
SqlUpdateUser(tbl, user_id, fields) ==
    IF user_id \in DOMAIN tbl
    THEN [tbl EXCEPT ![user_id] =
            [k \in DOMAIN @ |-> IF k \in DOMAIN fields THEN fields[k] ELSE @[k]]]
    ELSE tbl

\* a whitelist check that lets every name through
UpdateRaisesNever(fields) == FALSE

\* update_user_state: TRUE when the call raises ValueError
UpdateRaises(fields) == DOMAIN fields # {} /\ ~(DOMAIN fields \subseteq _ALLOWED_USER_FIELDS)

update_user_state(tbl, user_id, fields) ==
    IF DOMAIN fields = {} \/ UpdateRaises(fields) THEN tbl
    ELSE SqlUpdateUser(tbl, user_id, fields)

\* SELECT id FROM mood_history WHERE user_id=? AND recorded=?
MoodRows(tbl, user_id, day) ==
    {i \in 1..Len(tbl) : tbl[i].user_id = user_id /\ tbl[i].recorded = day}

----------------------------------------------------------------------------
(* Threads: one per inbound message (Flask request thread, then _reply) *)
NoText == Text({}, 0)

\* what build_system_prompt renders from the store (the fixed persona text left out)
NoPrompt == [attachment |-> "secure", mood |-> "calm", energy |-> 0, energy_note |-> "none",
             affection |-> 0, affection_note |-> "none", soc |-> 0, memories |-> <<>>]

\* row_id is the id the thread's INSERT of the inbound turn was given; history keeps
\* the id of each row read next to its role and content
IdleThread == [pc |-> "idle", op |-> "none", user_id |-> "u1", text |-> NoText,
               user |-> DefaultUser, style |-> "secure", today |-> NoDay,
               row_id |-> 0, prompt |-> NoPrompt, history |-> <<>>, reply |-> NoText,
               fields |-> <<>>]

DoneThread   == [IdleThread EXCEPT !.pc = "done"]
FailedThread == [IdleThread EXCEPT !.pc = "failed"]

Free(t) == th[t].pc \in {"idle", "done", "failed"}

\* the thread moves to pc p with its locals changed by the record upd
Goto(t, p, upd) ==
    th' = [th EXCEPT ![t] = [k \in DOMAIN @ |->
              IF k = "pc" THEN p ELSE IF k \in DOMAIN upd THEN upd[k] ELSE @[k]]]

NoUpd == [x \in {} |-> 0]

Finish(t) == th' = [th EXCEPT ![t] = DoneThread]
Raise(t)  == th' = [th EXCEPT ![t] = FailedThread]

\* return from adjust_emotion: handle_message goes on to save_memory
AfterEvaluate(t) ==
    IF th[t].op = "handle" THEN Goto(t, "sm_insert", NoUpd) ELSE Finish(t)

(* get_or_create_user, one step per SQL statement *)
\* SELECT * FROM users WHERE user_id=?
GocuSelect(t, here, ins, next) ==
    /\ th[t].pc = here
    /\ IF th[t].user_id \in DOMAIN users
       THEN Goto(t, next, [user |-> users[th[t].user_id]])
       ELSE Goto(t, ins, NoUpd)
    /\ UNCHANGED <<storeVars, calls, clock, completion, schedVars>>

\* INSERT INTO users (user_id) VALUES (?): the PRIMARY KEY rejects a second row
GocuInsert(t, here, resel) ==
    /\ th[t].pc = here
    /\ IF th[t].user_id \in DOMAIN users
       THEN Raise(t) /\ UNCHANGED users
       ELSE /\ users' = users @@ (th[t].user_id :> DefaultUser)
            /\ Goto(t, resel, NoUpd)
    /\ UNCHANGED <<attachment, mood_history, memories, memories_seq,
                   conversation_history, conversation_seq, turn_log, calls, clock, completion, schedVars>>

\* the second SELECT of get_or_create_user (rows are never deleted)
GocuReselect(t, here, next) ==
    /\ th[t].pc = here
    /\ Goto(t, next, [user |-> users[th[t].user_id]])
    /\ UNCHANGED <<storeVars, calls, clock, completion, schedVars>>

(* get_attachment *)
\* SELECT style FROM attachment WHERE user_id=?; random.choice when there is none
AttSelect(t, here, ins, next) ==
    /\ th[t].pc = here
    /\ IF th[t].user_id \in DOMAIN attachment
       THEN Goto(t, next, [style |-> attachment[th[t].user_id]])
       ELSE \E s \in Styles : Goto(t, ins, [style |-> s])
    /\ UNCHANGED <<storeVars, calls, clock, completion, schedVars>>

\* an INSERT OR REPLACE, which overwrites the row of a user who has one
AttInsertOrReplace(t, here, next) ==
    /\ th[t].pc = here
    /\ attachment' = [u \in DOMAIN attachment \cup {th[t].user_id} |->
                        IF u = th[t].user_id THEN th[t].style ELSE attachment[u]]
    /\ Goto(t, next, NoUpd)
    /\ UNCHANGED <<users, mood_history, memories, memories_seq,
                   conversation_history, conversation_seq, turn_log, calls, clock, completion, schedVars>>

\* INSERT INTO attachment (user_id, style) VALUES (?,?)
AttInsert(t, here, next) ==
    /\ th[t].pc = here
    /\ IF th[t].user_id \in DOMAIN attachment
       THEN Raise(t) /\ UNCHANGED attachment
       ELSE /\ attachment' = attachment @@ (th[t].user_id :> th[t].style)
            /\ Goto(t, next, NoUpd)
    /\ UNCHANGED <<users, mood_history, memories, memories_seq,
                   conversation_history, conversation_seq, turn_log, calls, clock, completion, schedVars>>

(* adjust_emotion *)
AeSelectUser(t)   == GocuSelect(t, "ae_user", "ae_user_ins", "ae_att")
AeInsertUser(t)   == GocuInsert(t, "ae_user_ins", "ae_user_sel2")
AeReselectUser(t) == GocuReselect(t, "ae_user_sel2", "ae_att")
AeSelectAtt(t)    == AttSelect(t, "ae_att", "ae_att_ins", "ae_mood_sel")
AeInsertAtt(t)    == AttInsert(t, "ae_att_ins", "ae_mood_sel")

\* what adjust_emotion is about to persist
Computed(t) == ComputeEmotion(th[t].user, th[t].style, th[t].text)

\* today = now().strftime(...); SELECT id FROM mood_history WHERE user_id=? AND recorded=?
AeSelectMood(t) ==
    /\ th[t].pc = "ae_mood_sel"
    /\ IF MoodRows(mood_history, th[t].user_id, clock.day) = {}
       THEN Goto(t, "ae_mood_ins", [today |-> clock.day])
       ELSE Goto(t, "ae_update", [today |-> clock.day])
    /\ UNCHANGED <<storeVars, calls, clock, completion, schedVars>>

\* INSERT INTO mood_history (user_id, recorded, mood, energy, affection)
AeInsertMood(t) ==
    /\ th[t].pc = "ae_mood_ins"
    /\ mood_history' = Append(mood_history,
            [user_id |-> th[t].user_id, recorded |-> th[t].today,
             mood |-> Computed(t).mood, energy |-> Computed(t).energy,
             affection |-> Computed(t).affection])
    /\ Goto(t, "ae_update", NoUpd)
    /\ UNCHANGED <<users, attachment, memories, memories_seq,
                   conversation_history, conversation_seq, turn_log, calls, clock, completion, schedVars>>

\* update_user_state(user_id, mood=..., energy=..., affection=..., social_battery=..., last_active=...)
AeUpdate(t) ==
    /\ th[t].pc = "ae_update"
    /\ users' = update_user_state(users, th[t].user_id,
            [mood |-> Computed(t).mood, energy |-> Computed(t).energy,
             affection |-> Computed(t).affection,
             social_battery |-> Computed(t).social_battery,
             last_active |-> <<clock.day, clock.h, clock.m>>])
    /\ AfterEvaluate(t)
    /\ UNCHANGED <<attachment, mood_history, memories, memories_seq,
                   conversation_history, conversation_seq, turn_log, calls, clock, completion, schedVars>>

----------------------------------------------------------------------------
(* Wall clock: day, and h, m as datetime.now(TZ) gives them.  The model observes
   the clock at chosen instants <<h, m>> of each day. *)
\* around the 05:00 recovery window and the start of the morning window
RecoveryInstants == {<<5, 0>>, <<5, 4>>, <<5, 5>>, <<6, 0>>}
\* inside and just outside the windows of _SCHEDULE
MomentInstants   == {<<5, 0>>, <<6, 0>>, <<6, 10>>, <<6, 11>>, <<14, 5>>, <<23, 59>>}
\* one instant a day, inside the recovery window
EmotionInstants  == {<<5, 2>>}

Earlier(a, b) == a[1] < b[1] \/ (a[1] = b[1] /\ a[2] < b[2])

\* time passes: to a later instant of the day, or into the next day.  A scheduler
\* in time.sleep(60) wakes up; the histories of the day start again at midnight
AdvanceClock(instants) ==
    /\ \E tp \in instants :
         \/ /\ Earlier(<<clock.h, clock.m>>, tp)
            /\ clock' = [clock EXCEPT !.h = tp[1], !.m = tp[2]]
            /\ UNCHANGED <<recoveries, pushes>>
         \/ /\ clock.day < MaxDay
            /\ clock' = [day |-> clock.day + 1, h |-> tp[1], m |-> tp[2]]
            /\ recoveries' = 0
            /\ pushes' = [d \in DOMAIN pushes |-> 0]
    /\ pc' = [p \in DOMAIN pc |-> IF pc[p] = "sleep" THEN "loop" ELSE pc[p]]
    /\ UNCHANGED <<storeVars, th, calls, lock, energy_recovered_today, tickLog, completion>>

----------------------------------------------------------------------------
(* Scheduler *)
_SCHEDULE == <<
    [h_s |-> 6,  h_e |-> 6,  m_s |-> 0,  m_e |-> 10, moment |-> "morning", field |-> "last_morning"],
    [h_s |-> 14, h_e |-> 14, m_s |-> 0,  m_e |-> 10, moment |-> "day",     field |-> "last_random"],
    [h_s |-> 23, h_e |-> 23, m_s |-> 50, m_e |-> 59, moment |-> "night",   field |-> "last_night"] >>

Moments == 1..Len(_SCHEDULE)

_should_send(hour, minute, h_s, h_e, m_s, m_e) ==
    h_s <= hour /\ hour <= h_e /\ m_s <= minute /\ minute <= m_e

InWindow(i) == _should_send(clock.h, clock.m, _SCHEDULE[i].h_s, _SCHEDULE[i].h_e,
                            _SCHEDULE[i].m_s, _SCHEDULE[i].m_e)

\* UPDATE users SET energy = MIN(energy + 30, 100), social_battery = MIN(social_battery + 20, 100)
_recover_energy_all_users(tbl) ==
    [u \in DOMAIN tbl |-> [tbl[u] EXCEPT !.energy = Min(@ + 30, 100),
                                         !.social_battery = Min(@ + 20, 100)]]

\* if h == 5 and m < 5 and energy_recovered_today != today
RecoveryDue(p) == clock.h = 5 /\ clock.m < 5 /\ energy_recovered_today[p] # clock.day

\* a due test that forgets the marker
DueIgnoringMarker(rows) == {d \in (DOMAIN rows) \X Moments : InWindow(d[2])}

\* the (row, schedule entry) pairs whose `if` at line 567 is true
Due(rows) == {d \in (DOMAIN rows) \X Moments :
                InWindow(d[2]) /\ rows[d[1]][_SCHEDULE[d[2]].field] # clock.day}

\* what one pass of the try block at lines 569-578 can do:
\*   "sent"        push_message and the marker UPDATE both succeed
\*   "push_failed" push_message raises, the UPDATE is not reached
\*   "mark_failed" push_message succeeds, the marker UPDATE raises
Outcomes == {"sent", "push_failed", "mark_failed"}

Delivered(o) == o \in {"sent", "mark_failed"}

\* the marker written before the push is tried
MarkerAfterAnyAttempt(o, old, today) == IF o \in {"sent", "push_failed"} THEN today ELSE old

\* the marker after the try block
MarkerAfter(o, old, today) == IF o = "sent" THEN today ELSE old

AllNone == [d \in UserIds \X Moments |-> "none"]

\* an acquisition that never times out
AcquiredAlways(p) == TRUE

\* lock.acquire(timeout=0) succeeds: nobody holds the lock file
Acquired(p) == lock = NoProc

\* scheduler(): acquire the lock or return
Start(p) ==
    /\ pc[p] = "new"
    /\ IF Acquired(p)
       THEN /\ lock' = p
            /\ pc' = [pc EXCEPT ![p] = "loop"]
            /\ energy_recovered_today' = [energy_recovered_today EXCEPT ![p] = NoDay]
       ELSE /\ pc' = [pc EXCEPT ![p] = "skipped"]
            /\ UNCHANGED <<lock, energy_recovered_today>>
    /\ UNCHANGED <<storeVars, th, calls, clock, completion, recoveries, pushes, tickLog>>

\* the worker process ends; the operating system drops its file lock
Exit(p) ==
    /\ pc[p] \in {"loop", "sleep", "skipped"}
    /\ pc' = [pc EXCEPT ![p] = "dead"]
    /\ lock' = IF lock = p THEN NoProc ELSE lock
    /\ energy_recovered_today' = [energy_recovered_today EXCEPT ![p] = NoDay]
    /\ UNCHANGED <<storeVars, th, calls, clock, completion, recoveries, pushes, tickLog>>

\* a loop whose outer try is missing: an error of the recovery pass or of the read
\* of the users ends scheduler()
TickDyingOnError(p) ==
    /\ pc[p] = "loop"
    /\ \/ /\ RecoveryDue(p)
          /\ pc' = [pc EXCEPT ![p] = "dead"]
          /\ tickLog' = [p |-> p, status |-> "recovery_failed", out |-> AllNone]
          /\ UNCHANGED <<users, energy_recovered_today, recoveries, pushes>>
       \/ LET rec == RecoveryDue(p) IN
          /\ energy_recovered_today' =
                IF rec THEN [energy_recovered_today EXCEPT ![p] = clock.day]
                ELSE energy_recovered_today
          /\ recoveries' = IF rec THEN recoveries + 1 ELSE recoveries
          /\ LET rows == IF rec THEN _recover_energy_all_users(users) ELSE users IN
             \/ /\ users' = rows
                /\ pc' = [pc EXCEPT ![p] = "dead"]
                /\ tickLog' = [p |-> p, status |-> "read_failed", out |-> AllNone]
                /\ UNCHANGED pushes
             \/ \E out \in [Due(rows) -> Outcomes] :
                /\ pc' = [pc EXCEPT ![p] = "sleep"]
                /\ users' = [u \in DOMAIN rows |-> [k \in DOMAIN rows[u] |->
                      IF \E i \in Moments : <<u, i>> \in Due(rows) /\ _SCHEDULE[i].field = k
                      THEN LET i == CHOOSE i \in Moments :
                                      <<u, i>> \in Due(rows) /\ _SCHEDULE[i].field = k
                           IN  MarkerAfter(out[<<u, i>>], rows[u][k], clock.day)
                      ELSE rows[u][k]]]
                /\ pushes' = [d \in DOMAIN pushes |->
                      IF d \in Due(rows) /\ Delivered(out[d])
                      THEN pushes[d] + 1 ELSE pushes[d]]
                /\ tickLog' = [p |-> p, status |-> "ok", out |->
                      [d \in UserIds \X Moments |->
                         IF d \in Due(rows) THEN out[d] ELSE "none"]]
    /\ UNCHANGED <<attachment, mood_history, memories, memories_seq,
                   conversation_history, conversation_seq, turn_log, th, calls, clock, completion, lock>>

\* one iteration of `while True`, up to and including time.sleep(60): the next
\* iteration reads a later clock
Tick(p) ==
    /\ pc[p] = "loop"
    /\ pc' = [pc EXCEPT ![p] = "sleep"]
    /\ \/ \* _recover_energy_all_users raises: the outer except ends the iteration
          /\ RecoveryDue(p)
          /\ tickLog' = [p |-> p, status |-> "recovery_failed", out |-> AllNone]
          /\ UNCHANGED <<users, energy_recovered_today, recoveries, pushes>>
       \/ LET rec == RecoveryDue(p) IN
          /\ energy_recovered_today' =
                IF rec THEN [energy_recovered_today EXCEPT ![p] = clock.day]
                ELSE energy_recovered_today
          /\ recoveries' = IF rec THEN recoveries + 1 ELSE recoveries
          /\ LET rows == IF rec THEN _recover_energy_all_users(users) ELSE users IN
             \/ \* db_fetchall raises
                /\ users' = rows
                /\ tickLog' = [p |-> p, status |-> "read_failed", out |-> AllNone]
                /\ UNCHANGED pushes
             \/ \E out \in [Due(rows) -> Outcomes] :
                /\ users' = [u \in DOMAIN rows |-> [k \in DOMAIN rows[u] |->
                      IF \E i \in Moments : <<u, i>> \in Due(rows) /\ _SCHEDULE[i].field = k
                      THEN LET i == CHOOSE i \in Moments :
                                      <<u, i>> \in Due(rows) /\ _SCHEDULE[i].field = k
                           IN  MarkerAfter(out[<<u, i>>], rows[u][k], clock.day)
                      ELSE rows[u][k]]]
                /\ pushes' = [d \in DOMAIN pushes |->
                      IF d \in Due(rows) /\ Delivered(out[d])
                      THEN pushes[d] + 1 ELSE pushes[d]]
                /\ tickLog' = [p |-> p, status |-> "ok", out |->
                      [d \in UserIds \X Moments |->
                         IF d \in Due(rows) THEN out[d] ELSE "none"]]
    /\ UNCHANGED <<attachment, mood_history, memories, memories_seq,
                   conversation_history, conversation_seq, turn_log, th, calls, clock, completion, lock>>

----------------------------------------------------------------------------
(* Initial states *)
NoRows == [u \in {} |-> DefaultUser]

\* a user worn down by a long conversation
TiredUser == [DefaultUser EXCEPT !.mood = "sad", !.energy = 20, !.affection = 0,
                                 !.social_battery = 20]
\* a user at the top of every range
FondUser  == [DefaultUser EXCEPT !.mood = "happy", !.energy = 100, !.affection = 100,
                                 !.social_battery = 100]

\* 04:59 on the given day
Dawn(day) == [day |-> day, h |-> 4, m |-> 59]

InitThreads == th = [t \in Threads |-> IdleThread] /\ calls = 0 /\ completion = "up"

InitLogs ==
    /\ recoveries = 0
    /\ pushes = [d \in UserIds \X Moments |-> 0]
    /\ tickLog = [p |-> NoProc, status |-> "none", out |-> AllNone]

InitEmptyLogsTables ==
    /\ mood_history = <<>>
    /\ memories = <<>> /\ memories_seq = 0
    /\ conversation_history = <<>> /\ conversation_seq = 0 /\ turn_log = <<>>

\* no worker has reached scheduler() yet
InitSchedNew ==
    /\ pc = [p \in Procs |-> "new"]
    /\ lock = NoProc
    /\ energy_recovered_today = [p \in Procs |-> NoDay]
    /\ InitLogs

\* worker 1 holds the lock and loops, the others have skipped
InitSchedRunning ==
    /\ pc = [p \in Procs |-> IF p = 1 THEN "loop" ELSE "skipped"]
    /\ lock = 1
    /\ energy_recovered_today = [p \in Procs |-> NoDay]
    /\ InitLogs

----------------------------------------------------------------------------
(* The scheduler among the worker processes *)
InitSched ==
    /\ users = ("u1" :> DefaultUser) @@ ("u2" :> TiredUser)
    /\ attachment = ("u1" :> "secure") @@ ("u2" :> "anxious")
    /\ InitEmptyLogsTables
    /\ InitThreads
    /\ clock = Dawn(MaxDay - 1)
    /\ InitSchedNew

NextSched ==
    \/ \E p \in Procs : Start(p)
    \/ \E p \in Procs : Exit(p)
    \/ \E p \in Procs : Tick(p)
    \/ AdvanceClock(RecoveryInstants)

SpecSched == InitSched /\ [][NextSched]_vars

----------------------------------------------------------------------------
(* The ticks of one day: worker 1 runs the loop; u2 was greeted yesterday morning *)
InitTicks ==
    /\ users = ("u1" :> DefaultUser)
                @@ ("u2" :> [TiredUser EXCEPT !.last_morning = MaxDay - 1])
    /\ attachment = ("u1" :> "secure") @@ ("u2" :> "anxious")
    /\ InitEmptyLogsTables
    /\ InitThreads
    /\ clock = Dawn(MaxDay)
    /\ InitSchedRunning

NextTicks ==
    \/ \E p \in Procs : Tick(p)
    \/ AdvanceClock(MomentInstants)

SpecTicks == InitTicks /\ [][NextTicks]_vars

\* the scheduler thread of a live process keeps being scheduled, and time passes
SpecTicksFair ==
    /\ InitTicks /\ [][NextTicks]_vars
    /\ \A p \in Procs : WF_vars(Tick(p))
    /\ WF_vars(AdvanceClock(MomentInstants))

----------------------------------------------------------------------------
(* The Emotion Engine under concurrent requests, with the scheduler's recovery *)
MaxEvaluations == 2

EmotionTexts == {Text({}, 3),                      \* short, no keyword
                 Text({"faen_kao"}, 85)}           \* annoyed, long

\* Evaluate(user, text): a thread enters adjust_emotion
Evaluate(t) ==
    /\ Free(t)
    /\ calls < MaxEvaluations
    /\ \E u \in UserIds, x \in EmotionTexts :
         th' = [th EXCEPT ![t] = [IdleThread EXCEPT !.pc = "ae_user", !.op = "evaluate",
                                                    !.user_id = u, !.text = x]]
    /\ calls' = calls + 1
    /\ UNCHANGED <<storeVars, clock, completion, schedVars>>

InitEmotion ==
    /\ \/ users = ("u1" :> TiredUser) /\ attachment = ("u1" :> "avoidant")
       \/ users = ("u1" :> FondUser) /\ attachment = ("u1" :> "anxious")
    /\ InitEmptyLogsTables
    /\ InitThreads
    /\ clock = Dawn(MaxDay)
    /\ InitSchedRunning

NextEmotion ==
    \/ \E t \in Threads : Evaluate(t)
    \/ \E t \in Threads : AeSelectUser(t)
    \/ \E t \in Threads : AeInsertUser(t)
    \/ \E t \in Threads : AeReselectUser(t)
    \/ \E t \in Threads : AeSelectAtt(t)
    \/ \E t \in Threads : AeInsertAtt(t)
    \/ \E t \in Threads : AeSelectMood(t)
    \/ \E t \in Threads : AeInsertMood(t)
    \/ \E t \in Threads : AeUpdate(t)
    \/ \E p \in Procs : Tick(p)
    \/ AdvanceClock(EmotionInstants)

SpecEmotion == InitEmotion /\ [][NextEmotion]_vars

----------------------------------------------------------------------------
(* Memory Manager *)
\* the for ... else of save_memory
Importance(text) ==
    IF text.kws \cap _HIGH_IMPORTANCE_KW # {} THEN 9
    ELSE IF text.len > 60 THEN 5
    ELSE 3

\* text[:n]
Truncate(text, n) == Text(text.kws, Min(text.len, n))

\* a LIMIT that keeps one row too many
NewestIdsOneMore(S, n) == {i \in S : Cardinality({j \in S : j > i}) <= n}

\* the n largest ids of S: ORDER BY id DESC LIMIT n
NewestIds(S, n) == {i \in S : Cardinality({j \in S : j > i}) < n}

\* SELECT id FROM memories WHERE user_id=? AND importance < 5
LowImportanceIds(tbl, user_id) ==
    {tbl[i].id : i \in {j \in 1..Len(tbl) : tbl[j].user_id = user_id /\ tbl[j].importance < 5}}

\* a DELETE whose outer WHERE forgets user_id=?
PruneMemoriesAnyUser(tbl, user_id) ==
    LET keep == NewestIds(LowImportanceIds(tbl, user_id), MEMORY_LOW_IMPORTANCE_CAP)
        Stays(r) == ~(r.importance < 5 /\ r.id \notin keep)
    IN  SelectSeq(tbl, Stays)

\* DELETE FROM memories WHERE user_id=? AND importance < 5 AND id NOT IN (... LIMIT cap)
PruneMemories(tbl, user_id) ==
    LET keep == NewestIds(LowImportanceIds(tbl, user_id), MEMORY_LOW_IMPORTANCE_CAP)
        Stays(r) == ~(r.user_id = user_id /\ r.importance < 5 /\ r.id \notin keep)
    IN  SelectSeq(tbl, Stays)

\* if len(text) <= 10: return;  INSERT INTO memories (user_id, content, importance)
SmInsert(t) ==
    /\ th[t].pc = "sm_insert"
    /\ IF th[t].text.len <= 10
       THEN /\ IF th[t].op = "handle" THEN Goto(t, "gr_user", NoUpd) ELSE Finish(t)
            /\ UNCHANGED <<memories, memories_seq>>
       ELSE /\ memories' = Append(memories,
                  [id |-> memories_seq + 1, user_id |-> th[t].user_id,
                   content |-> Truncate(th[t].text, 300),
                   importance |-> Importance(th[t].text),
                   created_at |-> <<clock.day, clock.h, clock.m>>])
            /\ memories_seq' = memories_seq + 1
            /\ Goto(t, "sm_prune", NoUpd)
    /\ UNCHANGED <<users, attachment, mood_history, conversation_history,
                   conversation_seq, turn_log, calls, clock, completion, schedVars>>

SmPrune(t) ==
    /\ th[t].pc = "sm_prune"
    /\ memories' = PruneMemories(memories, th[t].user_id)
    /\ IF th[t].op = "handle" THEN Goto(t, "gr_user", NoUpd) ELSE Finish(t)
    /\ UNCHANGED <<users, attachment, mood_history, memories_seq, conversation_history,
                   conversation_seq, turn_log, calls, clock, completion, schedVars>>

(* The Memory Manager under concurrent requests *)
MaxConsiders == 3

MemoryTexts == {Text({}, 8),                 \* too short to keep
                Text({}, 20),                \* importance 3
                Text({}, 61),                \* importance 5
                Text({"khothot"}, 20)}       \* importance 9

\* Consider(user, text): a thread enters save_memory
Consider(t) ==
    /\ Free(t)
    /\ calls < MaxConsiders
    /\ \E u \in UserIds, x \in MemoryTexts :
         th' = [th EXCEPT ![t] = [IdleThread EXCEPT !.pc = "sm_insert", !.op = "consider",
                                                    !.user_id = u, !.text = x]]
    /\ calls' = calls + 1
    /\ UNCHANGED <<storeVars, clock, completion, schedVars>>

\* the table after u1 has sent n short plain texts, then one apology, and u2 one
\* plain text: n rows of importance 3, nothing pruned yet
MemoriesAfter(n) ==
    [i \in 1..(n + 2) |->
        [id |-> i,
         user_id |-> IF i = n + 2 THEN "u2" ELSE "u1",
         content |-> IF i = n + 1 THEN Text({"khothot"}, 20) ELSE Text({}, 20),
         importance |-> IF i = n + 1 THEN 9 ELSE 3,
         created_at |-> <<MaxDay - 1, 12, 0>>]]

InitMemory ==
    /\ users = ("u1" :> DefaultUser) @@ ("u2" :> TiredUser)
    /\ attachment = ("u1" :> "secure") @@ ("u2" :> "anxious")
    /\ mood_history = <<>>
    /\ \E n \in {MEMORY_LOW_IMPORTANCE_CAP - 1, MEMORY_LOW_IMPORTANCE_CAP} :
         memories = MemoriesAfter(n) /\ memories_seq = n + 2
    /\ conversation_history = <<>> /\ conversation_seq = 0 /\ turn_log = <<>>
    /\ InitThreads
    /\ clock = Dawn(MaxDay)
    /\ InitSchedRunning

NextMemory ==
    \/ \E t \in Threads : Consider(t)
    \/ \E t \in Threads : SmInsert(t)
    \/ \E t \in Threads : SmPrune(t)

SpecMemory == InitMemory /\ [][NextMemory]_vars

----------------------------------------------------------------------------
(* Conversation Window Manager *)
\* SELECT id FROM conversation_history WHERE user_id=?
TurnIds(tbl, user_id) ==
    {tbl[i].id : i \in {j \in 1..Len(tbl) : tbl[j].user_id = user_id}}

\* append_history, first statement: INSERT INTO conversation_history (user_id, role, content)
InsertTurn(tbl, seq, user_id, role, content) ==
    Append(tbl, [id |-> seq + 1, user_id |-> user_id, role |-> role,
                 content |-> Truncate(content, 500)])

\* a trim that keeps the oldest rows (ORDER BY id ASC)
TrimTurnsOldest(tbl, user_id) ==
    LET ids  == TurnIds(tbl, user_id)
        keep == {i \in ids : Cardinality({j \in ids : j < i}) < MAX_HISTORY * 2}
        Stays(r) == ~(r.user_id = user_id /\ r.id \notin keep)
    IN  SelectSeq(tbl, Stays)

\* append_history, second statement: DELETE ... WHERE user_id=? AND id NOT IN (... LIMIT ?)
TrimTurns(tbl, user_id) ==
    LET keep == NewestIds(TurnIds(tbl, user_id), MAX_HISTORY * 2)
        Stays(r) == ~(r.user_id = user_id /\ r.id \notin keep)
    IN  SelectSeq(tbl, Stays)

\* the first n elements of a sequence: LIMIT n
Limit(seq, n) == SubSeq(seq, 1, Min(Len(seq), n))

\* a read in newest-first order (ORDER BY id DESC)
get_historyNewestFirst(tbl, user_id) ==
    LET OfUser(r) == r.user_id = user_id
        all  == SelectSeq(tbl, OfUser)
        rows == Limit([i \in 1..Len(all) |-> all[Len(all) + 1 - i]], MAX_HISTORY * 2)
    IN  [i \in 1..Len(rows) |->
            [id |-> rows[i].id, role |-> rows[i].role, content |-> rows[i].content]]

\* get_history: SELECT role, content ... WHERE user_id=? ORDER BY id ASC LIMIT ?
get_history(tbl, user_id) ==
    LET OfUser(r) == r.user_id = user_id
        rows == Limit(SelectSeq(tbl, OfUser), MAX_HISTORY * 2)
    IN  [i \in 1..Len(rows) |->
            [id |-> rows[i].id, role |-> rows[i].role, content |-> rows[i].content]]

(* Prompt Composer *)
\* timestamps <<day, h, m>> in the order of their text form
StampEarlier(a, b) == a[1] < b[1] \/ (a[1] = b[1] /\ Earlier(<<a[2], a[3]>>, <<b[2], b[3]>>))

\* ORDER BY importance DESC, created_at DESC: r comes before q
MemoryBefore(r, q) ==
    \/ r.importance > q.importance
    \/ r.importance = q.importance /\ StampEarlier(q.created_at, r.created_at)

\* get_memories: the contents of the first MEMORY_LIMIT rows in that order (rows
\* that tie come out in id order)
RECURSIVE SortedMemories(_)
SortedMemories(rows) ==
    IF rows = {} THEN <<>>
    ELSE LET first == CHOOSE r \in rows :
                        \A q \in rows \ {r} :
                           MemoryBefore(r, q) \/ (~MemoryBefore(q, r) /\ r.id < q.id)
         IN  <<first.content>> \o SortedMemories(rows \ {first})

get_memories(tbl, user_id) ==
    Limit(SortedMemories({tbl[i] : i \in {j \in 1..Len(tbl) : tbl[j].user_id = user_id}}),
          MEMORY_LIMIT)

EnergyNote(energy) ==
    IF energy < 35 THEN "very_short" ELSE IF energy < 60 THEN "concise" ELSE "normal"

AffectionNote(affection) ==
    IF affection > 80 THEN "warm" ELSE IF affection > 50 THEN "caring" ELSE "quiet"

\* the f-string of build_system_prompt
RenderPrompt(user, style, mems) ==
    [attachment |-> style, mood |-> user.mood,
     energy |-> user.energy, energy_note |-> EnergyNote(user.energy),
     affection |-> user.affection, affection_note |-> AffectionNote(user.affection),
     soc |-> user.social_battery, memories |-> mems]

BpSelectUser(t)   == GocuSelect(t, "bp_user", "bp_user_ins", "bp_att")
BpInsertUser(t)   == GocuInsert(t, "bp_user_ins", "bp_user_sel2")
BpReselectUser(t) == GocuReselect(t, "bp_user_sel2", "bp_att")
BpSelectAtt(t)    == AttSelect(t, "bp_att", "bp_att_ins", "bp_mem")
BpInsertAtt(t)    == AttInsert(t, "bp_att_ins", "bp_mem")

\* memories = get_memories(user_id), and the return of build_system_prompt
BpMemories(t) ==
    /\ th[t].pc = "bp_mem"
    /\ LET prompt == RenderPrompt(th[t].user, th[t].style,
                                  get_memories(memories, th[t].user_id))
       IN  IF th[t].op = "compose"
           THEN th' = [th EXCEPT ![t] = [DoneThread EXCEPT !.prompt = prompt]]
           ELSE Goto(t, "gr_read", [prompt |-> prompt])
    /\ UNCHANGED <<storeVars, calls, clock, completion, schedVars>>

(* Reactive Reply Pipeline: generate_reply in the _reply thread, whose except
   clause logs whatever is raised *)
GptReply        == Text({"gpt"}, 40)
ApologyFallback == Text({"apology"}, 23)

GrSelectUser(t)   == GocuSelect(t, "gr_user", "gr_user_ins", "gr_in_ins")
GrInsertUser(t)   == GocuInsert(t, "gr_user_ins", "gr_user_sel2")
GrReselectUser(t) == GocuReselect(t, "gr_user_sel2", "gr_in_ins")

\* append_history(user_id, "user", text): the INSERT
GrAppendIn(t) ==
    /\ th[t].pc = "gr_in_ins"
    /\ conversation_history' = InsertTurn(conversation_history, conversation_seq,
                                          th[t].user_id, "user", th[t].text)
    /\ conversation_seq' = conversation_seq + 1
    /\ turn_log' = Append(turn_log, th[t].user_id)
    /\ Goto(t, "gr_in_trim", [row_id |-> conversation_seq + 1])
    /\ UNCHANGED <<users, attachment, mood_history, memories, memories_seq,
                   calls, clock, completion, schedVars>>

\* append_history(user_id, "user", text): the DELETE; time.sleep(min(delay, 12)) follows
GrTrimIn(t) ==
    /\ th[t].pc = "gr_in_trim"
    /\ conversation_history' = TrimTurns(conversation_history, th[t].user_id)
    /\ Goto(t, "bp_user", NoUpd)
    /\ UNCHANGED <<users, attachment, mood_history, memories, memories_seq,
                   conversation_seq, turn_log, calls, clock, completion, schedVars>>

\* history = get_history(user_id)
GrRead(t) ==
    /\ th[t].pc = "gr_read"
    /\ Goto(t, "gr_gpt", [history |-> get_history(conversation_history, th[t].user_id)])
    /\ UNCHANGED <<storeVars, calls, clock, completion, schedVars>>

\* a call whose exception escapes generate_reply and ends the _reply thread
GrCallGptRaising(t) ==
    /\ th[t].pc = "gr_gpt"
    /\ IF completion = "up"
       THEN Goto(t, "gr_out_ins", [reply |-> GptReply, prompt |-> NoPrompt, history |-> <<>>])
       ELSE Raise(t)
    /\ UNCHANGED <<storeVars, calls, clock, completion, schedVars>>

\* reply = _call_gpt(messages), or the apology when it raises; messages (the
\* prompt and the history read) are not used after the call
GrCallGpt(t) ==
    /\ th[t].pc = "gr_gpt"
    /\ Goto(t, "gr_out_ins",
            [reply |-> IF completion = "up" THEN GptReply ELSE ApologyFallback,
             prompt |-> NoPrompt, history |-> <<>>])
    /\ UNCHANGED <<storeVars, calls, clock, completion, schedVars>>

\* append_history(user_id, "assistant", reply): the INSERT
GrAppendOut(t) ==
    /\ th[t].pc = "gr_out_ins"
    /\ conversation_history' = InsertTurn(conversation_history, conversation_seq,
                                          th[t].user_id, "assistant", th[t].reply)
    /\ conversation_seq' = conversation_seq + 1
    /\ turn_log' = Append(turn_log, th[t].user_id)
    /\ Goto(t, "gr_out_trim", NoUpd)
    /\ UNCHANGED <<users, attachment, mood_history, memories, memories_seq,
                   calls, clock, completion, schedVars>>

\* append_history(user_id, "assistant", reply): the DELETE
GrTrimOut(t) ==
    /\ th[t].pc = "gr_out_trim"
    /\ conversation_history' = TrimTurns(conversation_history, th[t].user_id)
    /\ Goto(t, "gr_push", NoUpd)
    /\ UNCHANGED <<users, attachment, mood_history, memories, memories_seq,
                   conversation_seq, turn_log, calls, clock, completion, schedVars>>

\* line_bot_api.push_message(user_id, ...): delivered, or the failure is logged
GrPush(t) ==
    /\ th[t].pc = "gr_push"
    /\ Finish(t)
    /\ UNCHANGED <<storeVars, calls, clock, completion, schedVars>>

(* Reply tasks running side by side *)
MaxReplies == 11

ReplyTexts == {Text({}, 20)}
ReplyUsers == {"u1"}

\* a _reply thread enters generate_reply
Reply(t) ==
    /\ Free(t)
    /\ calls < MaxReplies
    /\ \E u \in ReplyUsers, x \in ReplyTexts :
         th' = [th EXCEPT ![t] = [IdleThread EXCEPT !.pc = "gr_user", !.op = "reply",
                                                    !.user_id = u, !.text = x]]
    /\ calls' = calls + 1
    /\ UNCHANGED <<storeVars, clock, completion, schedVars>>

\* u2 has had one exchange; u1 is known but has not written yet
InitHistory ==
    /\ users = ("u1" :> DefaultUser) @@ ("u2" :> TiredUser)
    /\ attachment = ("u1" :> "secure") @@ ("u2" :> "anxious")
    /\ mood_history = <<>>
    /\ memories = <<>> /\ memories_seq = 0
    /\ conversation_history =
          <<[id |-> 1, user_id |-> "u2", role |-> "user", content |-> Text({}, 20)],
            [id |-> 2, user_id |-> "u2", role |-> "assistant", content |-> GptReply]>>
    /\ conversation_seq = 2
    /\ turn_log = <<"u2", "u2">>
    /\ InitThreads
    /\ clock = Dawn(MaxDay)
    /\ InitSchedRunning

NextHistory ==
    \/ \E t \in Threads : Reply(t)
    \/ \E t \in Threads : GrSelectUser(t)
    \/ \E t \in Threads : GrAppendIn(t)
    \/ \E t \in Threads : GrTrimIn(t)
    \/ \E t \in Threads : BpSelectUser(t)
    \/ \E t \in Threads : BpSelectAtt(t)
    \/ \E t \in Threads : BpMemories(t)
    \/ \E t \in Threads : GrRead(t)
    \/ \E t \in Threads : GrCallGpt(t)
    \/ \E t \in Threads : GrAppendOut(t)
    \/ \E t \in Threads : GrTrimOut(t)
    \/ \E t \in Threads : GrPush(t)

SpecHistory == InitHistory /\ [][NextHistory]_vars

----------------------------------------------------------------------------
(* Mood resolution: every combination of categories an inbound text can touch *)
\* one keyword of each category, in every combination; 20 characters long
MoodTexts == {Text(K, 20) : K \in SUBSET {"puai", "sao", "faen_kao", "pai", "rak"}}

\* a user whose stored mood is annoyed and whose affection is near the ceiling
AnnoyedUser == [DefaultUser EXCEPT !.mood = "annoyed", !.affection = 96]

\* Evaluate(user, text) with a text of MoodTexts
Resolve(t) ==
    /\ Free(t)
    /\ calls < MaxEvaluations
    /\ \E x \in MoodTexts :
         th' = [th EXCEPT ![t] = [IdleThread EXCEPT !.pc = "ae_user", !.op = "evaluate",
                                                    !.user_id = "u1", !.text = x]]
    /\ calls' = calls + 1
    /\ UNCHANGED <<storeVars, clock, completion, schedVars>>

InitMood ==
    /\ \E row \in {DefaultUser, AnnoyedUser}, s \in {"secure", "anxious"} :
         users = ("u1" :> row) /\ attachment = ("u1" :> s)
    /\ InitEmptyLogsTables
    /\ InitThreads
    /\ clock = Dawn(MaxDay)
    /\ InitSchedRunning

NextMood ==
    \/ \E t \in Threads : Resolve(t)
    \/ \E t \in Threads : AeSelectUser(t)
    \/ \E t \in Threads : AeSelectAtt(t)
    \/ \E t \in Threads : AeSelectMood(t)
    \/ \E t \in Threads : AeInsertMood(t)
    \/ \E t \in Threads : AeUpdate(t)

SpecMood == InitMood /\ [][NextMood]_vars

----------------------------------------------------------------------------
(* handle_message from end to end, with a completion provider that comes and goes *)
MaxMessages == 2

HandleTexts == {Text({}, 3),                 \* too short for a memory
                Text({"sao"}, 20)}           \* sad, importance 3

\* handle_message(event): adjust_emotion, save_memory, then the _reply thread
Handle(t) ==
    /\ Free(t)
    /\ calls < MaxMessages
    /\ \E u \in UserIds, x \in HandleTexts :
         th' = [th EXCEPT ![t] = [IdleThread EXCEPT !.pc = "ae_user", !.op = "handle",
                                                    !.user_id = u, !.text = x]]
    /\ calls' = calls + 1
    /\ UNCHANGED <<storeVars, clock, completion, schedVars>>

\* the completion provider goes down or comes back
ProviderFlip ==
    /\ completion' = IF completion = "up" THEN "down" ELSE "up"
    /\ UNCHANGED <<storeVars, th, calls, clock, schedVars>>

InitPipeline == InitHistory

NextPipeline ==
    \/ \E t \in Threads : Handle(t)
    \/ ProviderFlip
    \/ \E t \in Threads : AeSelectUser(t)
    \/ \E t \in Threads : AeSelectAtt(t)
    \/ \E t \in Threads : AeSelectMood(t)
    \/ \E t \in Threads : AeInsertMood(t)
    \/ \E t \in Threads : AeUpdate(t)
    \/ \E t \in Threads : SmInsert(t)
    \/ \E t \in Threads : SmPrune(t)
    \/ \E t \in Threads : GrSelectUser(t)
    \/ \E t \in Threads : GrAppendIn(t)
    \/ \E t \in Threads : GrTrimIn(t)
    \/ \E t \in Threads : BpSelectUser(t)
    \/ \E t \in Threads : BpSelectAtt(t)
    \/ \E t \in Threads : BpMemories(t)
    \/ \E t \in Threads : GrRead(t)
    \/ \E t \in Threads : GrCallGpt(t)
    \/ \E t \in Threads : GrAppendOut(t)
    \/ \E t \in Threads : GrTrimOut(t)
    \/ \E t \in Threads : GrPush(t)

SpecPipeline == InitPipeline /\ [][NextPipeline]_vars

----------------------------------------------------------------------------
(* The update capability of the state store, called with any field set *)
MaxUpdates == 2

\* keyword arguments of update_user_state: valid, empty, unknown names, and both
UpdateInputs == {<<>>,
                 [energy |-> 50],
                 [mood |-> "happy", last_morning |-> MaxDay],
                 [style |-> "secure"],
                 [energy |-> 90, user_id |-> "u2"],
                 [mood |-> "sad", affection |-> 10, is_admin |-> 1]}

\* a caller enters update_user_state(user_id, **fields)
UpdateCall(t) ==
    /\ Free(t)
    /\ calls < MaxUpdates
    /\ \E u \in UserIds, f \in UpdateInputs :
         th' = [th EXCEPT ![t] = [IdleThread EXCEPT !.pc = "uus", !.op = "update",
                                                    !.user_id = u, !.fields = f]]
    /\ calls' = calls + 1
    /\ UNCHANGED <<storeVars, clock, completion, schedVars>>

\* the body of update_user_state; the ValueError carries the rejected names
UusApply(t) ==
    /\ th[t].pc = "uus"
    /\ users' = update_user_state(users, th[t].user_id, th[t].fields)
    /\ IF UpdateRaises(th[t].fields)
       THEN th' = [th EXCEPT ![t] = [FailedThread EXCEPT !.fields = th[t].fields]]
       ELSE Finish(t)
    /\ UNCHANGED <<attachment, mood_history, memories, memories_seq,
                   conversation_history, conversation_seq, turn_log, calls, clock,
                   completion, schedVars>>

InitUpdate ==
    /\ users = ("u1" :> DefaultUser) @@ ("u2" :> TiredUser)
    /\ attachment = ("u1" :> "secure") @@ ("u2" :> "anxious")
    /\ InitEmptyLogsTables
    /\ InitThreads
    /\ clock = Dawn(MaxDay)
    /\ InitSchedRunning

NextUpdate ==
    \/ \E t \in Threads : UpdateCall(t)
    \/ \E t \in Threads : UusApply(t)

SpecUpdate == InitUpdate /\ [][NextUpdate]_vars

----------------------------------------------------------------------------
(* First contact: u1 has no row in any table yet, u2 is known *)
MaxLookups == 2

ContactTexts == {Text({}, 20)}

\* Evaluate(user, text) for a user who may be new
Contact(t) ==
    /\ Free(t)
    /\ calls < MaxLookups
    /\ \E u \in UserIds, x \in ContactTexts :
         th' = [th EXCEPT ![t] = [IdleThread EXCEPT !.pc = "ae_user", !.op = "evaluate",
                                                    !.user_id = u, !.text = x]]
    /\ calls' = calls + 1
    /\ UNCHANGED <<storeVars, clock, completion, schedVars>>

\* Compose(user): a caller enters build_system_prompt
Compose(t) ==
    /\ Free(t)
    /\ calls < MaxLookups
    /\ \E u \in UserIds :
         th' = [th EXCEPT ![t] = [IdleThread EXCEPT !.pc = "bp_user", !.op = "compose",
                                                    !.user_id = u]]
    /\ calls' = calls + 1
    /\ UNCHANGED <<storeVars, clock, completion, schedVars>>

InitContact ==
    /\ users = ("u2" :> TiredUser)
    /\ attachment = ("u2" :> "anxious")
    /\ mood_history = <<>>
    /\ memories = <<[id |-> 1, user_id |-> "u2", content |-> Text({"khothot"}, 20),
                     importance |-> 9, created_at |-> <<MaxDay - 1, 12, 0>>]>>
    /\ memories_seq = 1
    /\ conversation_history = <<>> /\ conversation_seq = 0 /\ turn_log = <<>>
    /\ InitThreads
    /\ clock = Dawn(MaxDay)
    /\ InitSchedRunning

NextContact ==
    \/ \E t \in Threads : Contact(t)
    \/ \E t \in Threads : Compose(t)
    \/ \E t \in Threads : AeSelectUser(t)
    \/ \E t \in Threads : AeInsertUser(t)
    \/ \E t \in Threads : AeReselectUser(t)
    \/ \E t \in Threads : AeSelectAtt(t)
    \/ \E t \in Threads : AeInsertAtt(t)
    \/ \E t \in Threads : AeSelectMood(t)
    \/ \E t \in Threads : AeInsertMood(t)
    \/ \E t \in Threads : AeUpdate(t)
    \/ \E t \in Threads : BpSelectUser(t)
    \/ \E t \in Threads : BpInsertUser(t)
    \/ \E t \in Threads : BpReselectUser(t)
    \/ \E t \in Threads : BpSelectAtt(t)
    \/ \E t \in Threads : BpInsertAtt(t)
    \/ \E t \in Threads : BpMemories(t)
    \/ \E p \in Procs : Tick(p)
    \/ AdvanceClock(EmotionInstants)

SpecContact == InitContact /\ [][NextContact]_vars

----------------------------------------------------------------------------
(* Properties *)

\* C1: for every user and calendar day, mood_history holds at most one sample,
\* also when evaluations of the same user interleave between the existence check
\* and the insert.
C1_OneSamplePerUserDay ==
    \A u \in UserIds, d \in Days :
        Cardinality(MoodRows(mood_history, u, d)) <= 1

Looping == {p \in Procs : pc[p] \in {"loop", "sleep"}}

\* C2: at most one worker process is inside the scheduler loop at any time, it is
\* the holder of the lock, and a process whose acquisition failed never enters the
\* loop and never tries again.
C2_SingleSchedulerLoop ==
    /\ [](Cardinality(Looping) <= 1 /\ Looping \subseteq {lock})
    /\ [][\A p \in Procs : pc[p] = "skipped" => pc'[p] \in {"skipped", "dead"}]_vars

C2_Witness == \E p, q \in Procs : pc[p] = "sleep" /\ pc[q] = "skipped" /\ lock = p

\* the marker of schedule entry i in the row of user u
Marker(u, i) == users[u][_SCHEDULE[i].field]

TickStep == \E p \in Procs : pc[p] = "loop" /\ pc'[p] = "sleep"

\* C3 as stated: on one calendar day each user is delivered at most one proactive
\* message per moment kind.
C3_OneMessagePerMoment == \A d \in DOMAIN pushes : pushes[d] <= 1

\* C3 as amended: a tick delivers at most one message per user and moment; a tick
\* whose delivery and marker update both succeed delivers exactly one and sets
\* the marker to today; once the marker is today no later tick that day delivers
\* anything for that user and moment.
C3_NoSendOnceMarked ==
    [][\A d \in UserIds \X Moments :
          /\ pushes'[d] <= pushes[d] + 1
          /\ (d[1] \in DOMAIN users /\ Marker(d[1], d[2]) = clock.day)
                => pushes'[d] <= pushes[d]
          /\ (TickStep /\ tickLog'.out[d] = "sent")
                => /\ pushes'[d] = pushes[d] + 1
                   /\ users'[d[1]][_SCHEDULE[d[2]].field] = clock.day
      ]_vars

\* a tick inside the window that sends nothing to a user already served today
C3_Witness ==
    /\ pc[1] = "sleep" /\ tickLog.status = "ok"
    /\ InWindow(1) /\ Marker("u1", 1) = clock.day
    /\ pushes[<<"u1", 1>>] = 1 /\ tickLog.out[<<"u1", 1>>] = "none"

\* C4: when the delivery to a user fails the user's marker is left as it was (not
\* today), so the pair stays due; every tick that reaches the users processes
\* every due user and moment, whatever happened to the others.
C4_FailedDeliveryLeavesMarker ==
    [][(TickStep /\ tickLog'.status = "ok") =>
          \A d \in UserIds \X Moments :
             /\ d \in Due(users) => tickLog'.out[d] # "none"
             /\ tickLog'.out[d] = "push_failed"
                   => /\ users'[d[1]][_SCHEDULE[d[2]].field] = Marker(d[1], d[2])
                      /\ users'[d[1]][_SCHEDULE[d[2]].field] # clock.day
                      /\ d \in Due(users')
      ]_vars

\* the push to u1 failed and the same tick went on to serve u2
C4_Witness ==
    /\ tickLog.status = "ok"
    /\ tickLog.out[<<"u1", 1>>] = "push_failed"
    /\ tickLog.out[<<"u2", 1>>] = "sent"
    /\ Marker("u1", 1) # clock.day /\ Marker("u2", 1) = clock.day

\* C5: the overnight recovery pass is applied at most once on a calendar day, also
\* across scheduler process restarts.
C5_RecoveryOncePerDay == recoveries <= 1

\* C6: persisted energy and social_battery stay in [20,100] and affection in
\* [0,100] under every interleaving of evaluations and recovery passes.
C6_BoundedFields ==
    \A u \in DOMAIN users :
        /\ users[u].energy \in 20..100
        /\ users[u].social_battery \in 20..100
        /\ users[u].affection \in 0..100

\* an evaluation of the tired user was persisted after the recovery pass ran
C6_Witness ==
    /\ recoveries > 0
    /\ users["u1"].last_active # NoTime
    /\ users["u1"].energy = 20
    /\ users["u1"].social_battery = 20


\* a save_memory call for user u is between its INSERT and its DELETE
Pruning(u) == \E t \in Threads : th[t].pc = "sm_prune" /\ th[t].user_id = u

\* C7: whenever no Consider call for a user is between its insert and its prune,
\* the user's stored memories with importance < 5 number at most 50.
C7_LowImportanceCapped ==
    \A u \in UserIds :
        ~Pruning(u) => Cardinality(LowImportanceIds(memories, u)) <= MEMORY_LOW_IMPORTANCE_CAP

\* u1 is at the cap after the prune has deleted two rows
C7_Witness ==
    /\ ~Pruning("u1")
    /\ Cardinality(LowImportanceIds(memories, "u1")) = MEMORY_LOW_IMPORTANCE_CAP
    /\ Len(memories) + 2 <= memories_seq

\* SELECT id FROM memories WHERE user_id=? AND importance < 9
NonDurableIds(tbl, user_id) ==
    {tbl[i].id : i \in {j \in 1..Len(tbl) : tbl[j].user_id = user_id /\ tbl[j].importance < 9}}

\* C8: whenever no Consider call for a user is between its insert and its prune,
\* the user's stored memories with importance below 9 (importance 3 and 5) number
\* at most 50.
C8_NonDurableCapped ==
    \A u \in UserIds :
        ~Pruning(u) => Cardinality(NonDurableIds(memories, u)) <= MEMORY_LOW_IMPORTANCE_CAP

\* C9: the conversation window a reply task reads after appending the inbound turn
\* contains that turn.
C9_ReadSeesAppendedTurn ==
    \A t \in Threads :
        th[t].pc = "gr_gpt" =>
            \E i \in 1..Len(th[t].history) : th[t].history[i].id = th[t].row_id

\* the ids of the turns ever inserted for user u
InsertedIds(u) == {i \in 1..Len(turn_log) : turn_log[i] = u}

\* C10: a completed Append leaves at most 2 x MAX_HISTORY turns of the user; the
\* stored turns of a user are always the most recently inserted ones; Read returns
\* at most 2 x MAX_HISTORY of the user's turns, oldest first.
C10_WindowKeepsNewest ==
    /\ [](\A u \in UserIds :
            TurnIds(conversation_history, u) =
               NewestIds(InsertedIds(u), Cardinality(TurnIds(conversation_history, u))))
    /\ [](\A t \in Threads :
            th[t].pc = "gr_gpt" =>
               /\ Len(th[t].history) <= MAX_HISTORY * 2
               /\ \A i \in 1..Len(th[t].history) :
                     /\ th[t].history[i].id \in InsertedIds(th[t].user_id)
                     /\ i > 1 => th[t].history[i - 1].id < th[t].history[i].id)
    /\ [][\A t \in Threads :
            (th[t].pc \in {"gr_in_trim", "gr_out_trim"} /\ th'[t].pc # th[t].pc)
               => Cardinality(TurnIds(conversation_history', th[t].user_id))
                     <= MAX_HISTORY * 2]_vars

\* a full window read while turns older than it have been trimmed away
C10_Witness ==
    /\ Cardinality(TurnIds(conversation_history, "u1")) = MAX_HISTORY * 2
    /\ \E t \in Threads :
          /\ th[t].pc = "gr_gpt"
          /\ Len(th[t].history) = MAX_HISTORY * 2
          /\ th[t].history[1].id > 3

\* the keywords of the category named c
KeywordsOf(c) ==
    (CHOOSE e \in {_MOOD_TRIGGERS[i] : i \in 1..Len(_MOOD_TRIGGERS)} : e.mood = c).keywords

\* the text has a keyword of category c as a substring
Hit(text, c) == KeywordsOf(c) \cap text.kws # {}

PriorityOrder == <<"worried", "sad", "annoyed", "excited", "happy">>

\* the style modifier of affection, which is not a category delta
AnxiousBonus(style, mood) == IF style = "anxious" /\ mood = "annoyed" THEN 3 ELSE 0

\* C11: an evaluation persists the mood of the first category, in the order
\* worried > sad > annoyed > excited > happy, that has a keyword in the text, and
\* adds that category's affection delta and no other; a text with a worried and
\* a happy keyword resolves to worried; with no keyword the mood read is kept and
\* no category delta is added.
C11_FirstCategoryWins ==
    [][\A t \in Threads :
          (th[t].pc = "ae_update" /\ th'[t].pc # "ae_update") =>
             LET x    == th[t].text
                 old  == th[t].user
                 new  == users'[th[t].user_id]
                 hits == {i \in 1..Len(PriorityOrder) : Hit(x, PriorityOrder[i])}
             IN  /\ \A i \in hits :
                       (\A j \in hits : i <= j) =>
                          /\ new.mood = PriorityOrder[i]
                          /\ new.affection =
                                Max(0, Min(100, old.affection
                                                  + _AFFECTION_DELTA[PriorityOrder[i]]
                                                  + AnxiousBonus(th[t].style, new.mood)))
                 /\ (Hit(x, "worried") /\ Hit(x, "happy")) => new.mood = "worried"
                 /\ hits = {} =>
                       /\ new.mood = old.mood
                       /\ new.affection =
                             Max(0, Min(100, old.affection
                                               + AnxiousBonus(th[t].style, new.mood)))
      ]_vars

\* the only evaluation so far, of a text with a worried and a happy keyword, has
\* recorded its sample: worried, with the worried delta
C11_Witness ==
    /\ calls = 1 /\ Len(mood_history) = 1
    /\ \E t \in Threads :
          /\ th[t].pc = "ae_update"
          /\ {"puai", "rak"} \subseteq th[t].text.kws
          /\ mood_history[1].mood = "worried"
          /\ mood_history[1].affection = th[t].user.affection + _AFFECTION_DELTA["worried"]

\* thread t takes a step from pc p
StepFrom(t, p) == th[t].pc = p /\ th'[t].pc # p

\* the turn of the given id is stored for user u with this role and content
TurnStored(u, id, role, content) ==
    \E i \in 1..Len(conversation_history) :
        /\ conversation_history[i].id = id
        /\ conversation_history[i].user_id = u
        /\ conversation_history[i].role = role
        /\ conversation_history[i].content = content

\* C12: when the completion provider fails the pipeline does not raise: the reply
\* becomes the fixed apology, which is appended as the assistant turn and returned;
\* nothing the message persisted before the call (emotion update, memory, inbound
\* turn) is undone by the failure or by the steps that follow it.
C12_FallbackKeepsState ==
    /\ [][\A t \in Threads :
            /\ (StepFrom(t, "gr_gpt") /\ completion = "down") =>
                  /\ th'[t].pc = "gr_out_ins"
                  /\ th'[t].reply = Text({"apology"}, 23)
                  /\ UNCHANGED storeVars
            /\ StepFrom(t, "gr_out_ins") =>
                  /\ th'[t].pc = "gr_out_trim"
                  /\ conversation_history' = Append(conversation_history,
                        [id |-> conversation_seq + 1, user_id |-> th[t].user_id,
                         role |-> "assistant", content |-> th[t].reply])
                  /\ UNCHANGED <<users, attachment, mood_history, memories>>
            /\ StepFrom(t, "gr_out_trim") =>
                  /\ th'[t].pc = "gr_push"
                  /\ th'[t].reply = th[t].reply
                  /\ UNCHANGED <<users, attachment, mood_history, memories>>
                  /\ \A i \in NewestIds(TurnIds(conversation_history, th[t].user_id),
                                        MAX_HISTORY * 2) :
                        i \in TurnIds(conversation_history', th[t].user_id)
            /\ StepFrom(t, "gr_push") => th'[t].pc = "done"
       ]_vars
    /\ [](\A t \in Threads :
            (th[t].pc = "gr_push" /\ th[t].reply = Text({"apology"}, 23)) =>
               LET u == th[t].user_id IN
               /\ users[u].last_active # NoTime
               /\ th[t].text.len > 10 =>
                     \E i \in 1..Len(memories) :
                        memories[i].user_id = u /\ memories[i].content = th[t].text
               /\ TurnStored(u, th[t].row_id, "user", th[t].text)
               /\ \E id \in TurnIds(conversation_history, u) :
                     id > th[t].row_id /\ TurnStored(u, id, "assistant", Text({"apology"}, 23)))

\* a message whose completion call failed has returned the apology, and the provider
\* is down
C12_Witness ==
    /\ completion = "down"
    /\ \E t \in Threads :
          /\ th[t].pc = "gr_push" /\ th[t].op = "handle"
          /\ th[t].reply = Text({"apology"}, 23)
          /\ th[t].text.len > 10
          /\ Len(memories) > 0

\* the closed set of field names a user-state update may name
ClosedFieldSet == {"mood", "energy", "affection", "social_battery",
                   "last_morning", "last_night", "last_random", "last_active"}

\* C13: a call of update_user_state that names any field outside the closed set
\* fails with the validation error and leaves every stored user row as it was,
\* the valid fields of the same call included; a call that names only fields of
\* the closed set writes exactly those fields of that user.
C13_InvalidFieldRejectsAll ==
    [][\A t \in Threads :
          StepFrom(t, "uus") =>
             LET f == th[t].fields
                 u == th[t].user_id
             IN  IF DOMAIN f \subseteq ClosedFieldSet
                 THEN /\ th'[t].pc = "done"
                      /\ \A k \in ClosedFieldSet :
                            users'[u][k] = IF k \in DOMAIN f THEN f[k] ELSE users[u][k]
                      /\ \A v \in DOMAIN users \ {u} : users'[v] = users[v]
                 ELSE /\ th'[t].pc = "failed"
                      /\ users' = users
      ]_vars

\* a call naming affection (valid) and is_admin was rejected after another call
\* had changed the row, and affection is still what it was
C13_Witness ==
    /\ \E t \in Threads :
          /\ th[t].pc = "failed"
          /\ {"affection", "is_admin"} \subseteq DOMAIN th[t].fields
          /\ users[th[t].user_id].energy = 50
          /\ users[th[t].user_id].affection # th[t].fields.affection

\* thread t has returned from get_attachment with the style in its local
HasStyle(t) == th[t].pc \in {"ae_mood_sel", "ae_mood_ins", "ae_update", "bp_mem"}

\* C14: once a user has an attachment style no step changes or removes it, and
\* every call of get_attachment that returns gives the stored style of the user.
C14_StyleImmutable ==
    /\ [][\A u \in DOMAIN attachment :
             u \in DOMAIN attachment' /\ attachment'[u] = attachment[u]]_vars
    /\ [](\A t \in Threads :
             HasStyle(t) => /\ th[t].user_id \in DOMAIN attachment
                            /\ th[t].style = attachment[th[t].user_id])

\* two first-contact lookups of u1 raced: one has stored its style and returned,
\* the other still holds a different choice it is about to insert
C14_Witness ==
    \E t, s \in Threads :
        /\ th[t].pc \in {"ae_att_ins", "bp_att_ins"} /\ th[t].user_id = "u1"
        /\ "u1" \in DOMAIN attachment
        /\ th[t].style # attachment["u1"]
        /\ HasStyle(s) /\ th[s].user_id = "u1"

\* thread t executes the UPDATE of update_user_state for user u in this step
UpdateStateStep(t, u) ==
    /\ th[t].user_id = u
    /\ \/ StepFrom(t, "ae_update")
       \/ StepFrom(t, "uus")

\* C15: every step that changes a stored user row is a step of update_user_state
\* for that user; the scheduler's marker update and the recovery pass write user
\* fields by no other path.
C15_OnlyUpdateCapabilityWrites ==
    [][\A u \in DOMAIN users :
          (u \in DOMAIN users' /\ users'[u] # users[u])
             => \E t \in Threads : UpdateStateStep(t, u)]_vars

\* C16: no step of a build_system_prompt call changes any stored table, also for
\* a user who has no user row or no attachment row yet.
C16_ComposeHasNoSideEffects ==
    [][\A t \in Threads :
          (th[t].op = "compose" /\ th'[t] # th[t]) => UNCHANGED storeVars]_vars

\* C17: once every worker has been through the start of scheduler(), as long as
\* one of them is alive exactly one of them is in the scheduler loop; a state
\* where the lock holder has exited and a surviving worker is not looping has no
\* way to a loop, because a worker that skipped has returned from scheduler().
C17_SurvivorRunsLoop ==
    ((\A p \in Procs : pc[p] # "new") /\ (\E p \in Procs : pc[p] # "dead"))
        => Cardinality(Looping) = 1

\* the rows of a table, as a set
RowsOf(tbl) == {tbl[i] : i \in 1..Len(tbl)}

\* C18: the prune step of save_memory for user u deletes only rows of u with
\* importance < 5 that have at least 50 newer rows of u with importance < 5; it
\* deletes no row of importance 9, changes no row it keeps and touches no row of
\* another user.
C18_PruneDeletesOnlyExcess ==
    [][\A t \in Threads :
          StepFrom(t, "sm_prune") =>
             LET u == th[t].user_id IN
             /\ RowsOf(memories') \subseteq RowsOf(memories)
             /\ \A r \in RowsOf(memories) \ RowsOf(memories') :
                   /\ r.user_id = u
                   /\ r.importance < 5
                   /\ Cardinality({q \in RowsOf(memories) :
                          q.user_id = u /\ q.importance < 5 /\ q.id > r.id})
                        >= 50
             /\ \A r \in RowsOf(memories) :
                   (r.importance >= 9 \/ r.user_id # u) => r \in RowsOf(memories')
      ]_vars

\* a prune of u1 has deleted u1's oldest plain memory; the apology of u1 and the
\* memory of u2, both older than rows that were kept, are still stored
C18_Witness ==
    /\ ~Pruning("u1")
    /\ \A r \in RowsOf(memories) : r.id # 1
    /\ \E r \in RowsOf(memories) : r.user_id = "u1" /\ r.importance = 9
    /\ \E r \in RowsOf(memories) : r.user_id = "u2" /\ r.importance = 3
    /\ Cardinality(LowImportanceIds(memories, "u1")) = 50

\* the clock of the model stands at its last observed instant
LastInstant(instants) ==
    /\ clock.day = MaxDay
    /\ \A tp \in instants : ~Earlier(<<clock.h, clock.m>>, tp)

\* C19: in the process that holds the lock, every iteration at the top of the
\* loop is executed and ends in time.sleep whether it failed or not, and after
\* every tick, failed or not, the loop is at the top again once time has passed
\* (as long as the clock of the model has an instant left).
C19_LoopSurvivesErrors ==
    \A p \in Procs :
        /\ [](pc[p] = "loop" => <>(pc[p] = "sleep"))
        /\ [](pc[p] = "sleep" => <>(pc[p] = "loop" \/ LastInstant(MomentInstants)))
        /\ [](pc[p] \in {"loop", "sleep"} => [](pc[p] \in {"loop", "sleep"}))

\* a tick failed reading the users and the loop is at the top of its next iteration
C19_Witness ==
    /\ pc[1] = "loop"
    /\ tickLog.p = 1 /\ tickLog.status = "read_failed"
    /\ Earlier(<<5, 0>>, <<clock.h, clock.m>>)

\* the energies that n evaluations and r recovery passes, applied one at a time in
\* any order, can leave from energy e
RECURSIVE SerialEnergy(_, _, _)
SerialEnergy(e, n, r) ==
    IF n = 0 /\ r = 0 THEN {e}
    ELSE (IF n > 0 THEN SerialEnergy(Max(20, Min(100, e - 1)), n - 1, r) ELSE {})
         \cup (IF r > 0 THEN SerialEnergy(Min(e + 30, 100), n, r - 1) ELSE {})

\* no call is in flight and every call so far was an evaluation of u1
QuietOnU1 ==
    /\ \A t \in Threads : th[t].pc \in {"idle", "done"}
    /\ DOMAIN users = {"u1"}

\* C20: when the evaluations of a user and the recovery passes of the day have all
\* completed, the stored energy is what those operations leave when applied one
\* at a time in some order: no evaluation's decrement is lost and no recovery is
\* overwritten.
C20_NoLostUpdate ==
    QuietOnU1 =>
        users["u1"].energy \in
            SerialEnergy(IF attachment["u1"] = "anxious" THEN FondUser.energy
                         ELSE TiredUser.energy,
                         calls, recoveries)

\* C21: an evaluation never raises, also when two first messages of a user with
\* no stored rows are handled side by side; once the evaluations are over, the
\* user has a user row and an attachment row (the primary keys allow one each).
C21_FirstContactNeverRaises ==
    /\ [][\A t \in Threads :
            th[t].op = "evaluate" => th'[t].pc # "failed"]_vars
    /\ [](\A t \in Threads :
            (th[t].op = "evaluate" /\ th[t].pc = "ae_update") =>
               /\ th[t].user_id \in DOMAIN users
               /\ th[t].user_id \in DOMAIN attachment)

====
